---- MODULE Spec2Model ----
(***************************************************************************)
(* Model of owlmixin/owlcollections.py: the functional operations of TList *)
(* (a list subclass) and TDict (a dict subclass).                          *)
(*                                                                         *)
(* A Python object is a record with a cls field.  Containers carry their   *)
(* elements in items: a TList or a plain list holds a sequence, a TDict    *)
(* holds its entries as a sequence of <<key, value>> pairs in insertion    *)
(* order (the iteration order of a Python dict).  A raised exception is an *)
(* object whose cls is the exception's name.                               *)
(***************************************************************************)
EXTENDS Integers, Sequences, FiniteSets, TLC

\* Bounds of the model.
MaxLen == 3      \* longest receiver
MaxOther == 2    \* longest argument list (concat, +, intersection)
MaxElem == 2     \* integer elements are 0..MaxElem
MaxKey == 1      \* derived keys are 0..MaxKey

Elems == 0..MaxElem
Keys == 0..MaxKey

SeqsUpTo(S, n) == UNION {[1..k -> S] : k \in 0..n}

\* Functions handed to the operations.
Funcs == [Elems -> Keys]
Preds == [Elems -> BOOLEAN]

----------------------------------------------------------------------------
\* Python objects.

TList(xs) == [cls |-> "TList", items |-> xs]
PyList(xs) == [cls |-> "list", items |-> xs]
TDict(kvs) == [cls |-> "TDict", items |-> kvs]
PyInt(n) == [cls |-> "int", val |-> n]
PyStr(s) == [cls |-> "str", val |-> s]
PyBool(b) == [cls |-> "bool", val |-> b]
PyTuple(xs) == [cls |-> "tuple", items |-> xs]
None == [cls |-> "NoneType"]
TypeError == [cls |-> "TypeError"]

IsError(o) == o.cls = "TypeError"

----------------------------------------------------------------------------
\* Builtins of Python the methods delegate to.

\* PySlice_AdjustIndices: a negative bound counts from the end; bounds are
\* clamped to 0..len.
AdjustIndex(i, len) ==
    IF i < 0
    THEN (IF i + len < 0 THEN 0 ELSE i + len)
    ELSE (IF i > len THEN len ELSE i)

\* xs[start:stop]
PySlice(xs, start, stop) ==
    LET a == AdjustIndex(start, Len(xs))
        b == AdjustIndex(stop, Len(xs))
    IN  IF a >= b THEN <<>> ELSE SubSeq(xs, a + 1, b)

\* reversed(xs)
reversed(xs) == [i \in 1..Len(xs) |-> xs[Len(xs) + 1 - i]]

\* x in xs
In(x, xs) == \E i \in 1..Len(xs) : xs[i] = x

\* chain.from_iterable(xss) over a sequence of sequences
RECURSIVE chain(_)
chain(xss) == IF xss = <<>> THEN <<>> ELSE Head(xss) \o chain(Tail(xss))

\* One step of a stable insertion: x goes after every element whose key is
\* not greater than its own.
RECURSIVE InsertByKey(_, _, _)
InsertByKey(sortedxs, x, key) ==
    IF sortedxs = <<>> THEN <<x>>
    ELSE IF key[x] < key[Head(sortedxs)] THEN <<x>> \o sortedxs
    ELSE <<Head(sortedxs)>> \o InsertByKey(Tail(sortedxs), x, key)

\* list.sort on keys, ascending: stable.
RECURSIVE StableSort(_, _)
StableSort(xs, key) ==
    IF xs = <<>> THEN <<>>
    ELSE InsertByKey(StableSort(SubSeq(xs, 1, Len(xs) - 1), key), xs[Len(xs)], key)

\* sorted(xs, key=key, reverse=reverse).  CPython's list.sort reverses the
\* list, sorts it ascending and stably, and reverses it back, so that equal
\* keys keep their original order in both directions.
sorted(xs, key, reverse) ==
    IF reverse THEN reversed(StableSort(reversed(xs), key)) ELSE StableSort(xs, key)

\* The two-argument lambdas handed to reduce and emap, by their text.
Lambda2(name, a, b) ==
    CASE name = "t + 2*x" -> a + 2 * b
      [] name = "t - x" -> a - b
      [] name = "(x+1, i)" -> <<a + 1, b>>
      [] name = "x * i" -> a * b

ReduceFuncs == {"t + 2*x", "t - x"}
EmapFuncs == {"(x+1, i)", "x * i"}

\* The list-valued lambdas handed to flat_map, by their text.
LambdaList(name, x) ==
    CASE name = "[x, x+1]" -> <<x, x + 1>>
      [] name = "[x]" -> <<x>>
      [] name = "[]" -> <<>>

FlatMapFuncs == {"[x, x+1]", "[x]", "[]"}

\* functools.reduce(func, xs, init): a left fold.
RECURSIVE reduceLeft(_, _, _)
reduceLeft(func, xs, acc) ==
    IF xs = <<>> THEN acc ELSE reduceLeft(func, Tail(xs), Lambda2(func, acc, Head(xs)))

\* sum(xs)
RECURSIVE SumSeq(_)
SumSeq(xs) == IF xs = <<>> THEN 0 ELSE Head(xs) + SumSeq(Tail(xs))

\* joint.join(strs) once every item is known to be a str
RECURSIVE JoinStrs(_, _)
JoinStrs(joint, strs) ==
    IF strs = <<>> THEN ""
    ELSE IF Len(strs) = 1 THEN strs[1]
    ELSE strs[1] \o joint \o JoinStrs(joint, Tail(strs))

\* str.join(joint, xs): a TypeError when an item is not a str instance.
strjoin(joint, xs) ==
    IF \E i \in 1..Len(xs) : xs[i].cls # "str"
    THEN TypeError
    ELSE PyStr(JoinStrs(joint, [i \in 1..Len(xs) |-> xs[i].val]))

----------------------------------------------------------------------------
\* TList

\* v + w for list operands.  A TList on the left runs TList.__add__.  A plain
\* list on the left has no nb_add; TList defines no __radd__, so the
\* reflected call gives NotImplemented and list's own concatenation runs,
\* giving a plain list.
RECURSIVE PyAdd(_, _)
RECURSIVE TList_add(_, _)

PyAdd(v, w) ==
    IF v.cls = "TList" THEN TList_add(v, w) ELSE PyList(v.items \o w.items)

\* TList.__add__
TList_add(self, values) == TList(PyAdd(values, PyList(self.items)).items)

map(self, func) == TList([i \in 1..Len(self.items) |-> func[self.items[i]]])

emap(self, func) ==
    TList([i \in 1..Len(self.items) |-> Lambda2(func, self.items[i], i - 1)])

\* chain.from_iterable raises TypeError on an element that is not iterable.
flatten(self, elemtype) ==
    IF elemtype = "list" THEN TList(chain(self.items))
    ELSE IF self.items = <<>> THEN TList(<<>>)
    ELSE TypeError

flat_map(self, func) ==
    flatten(TList([i \in 1..Len(self.items) |-> LambdaList(func, self.items[i])]), "list")

filter(self, func) == TList(SelectSeq(self.items, LAMBDA x : func[x]))

reject(self, func) == TList(SelectSeq(self.items, LAMBDA x : ~func[x]))

head(self, size_) == TList(PySlice(self.items, 0, size_))

RECURSIVE head_while_loop(_, _, _)
head_while_loop(r, rest, func) ==
    IF rest = <<>> THEN r
    ELSE IF ~func[Head(rest)] THEN r
    ELSE head_while_loop(Append(r, Head(rest)), Tail(rest), func)

head_while(self, func) == TList(head_while_loop(<<>>, self.items, func))

size(self) == Len(self.items)

tail(self, size_) ==
    TList(PySlice(self.items, size(self) - size_, Len(self.items)))

RECURSIVE uniq_loop(_, _)
uniq_loop(rs, rest) ==
    IF rest = <<>> THEN rs
    ELSE uniq_loop(IF ~In(Head(rest), rs) THEN Append(rs, Head(rest)) ELSE rs,
                   Tail(rest))

uniq(self) == TList(uniq_loop(<<>>, self.items))

RECURSIVE uniq_by_loop(_, _, _)
uniq_by_loop(rs, rest, func) ==
    IF rest = <<>> THEN rs
    ELSE uniq_by_loop(IF ~In(func[Head(rest)], map(TList(rs), func).items)
                      THEN Append(rs, Head(rest)) ELSE rs,
                      Tail(rest), func)

\* func(e) looked up among the kept elements instead of among their keys.
RECURSIVE uniq_by_elements_loop(_, _, _)
uniq_by_elements_loop(rs, rest, func) ==
    IF rest = <<>> THEN rs
    ELSE uniq_by_elements_loop(IF ~In(func[Head(rest)], rs)
                               THEN Append(rs, Head(rest)) ELSE rs,
                               Tail(rest), func)

uniq_by_elements(self, func) == TList(uniq_by_elements_loop(<<>>, self.items, func))

uniq_by(self, func) == TList(uniq_by_loop(<<>>, self.items, func))

partial(self, func) == PyTuple(<<filter(self, func), reject(self, func)>>)

\* ret.setdefault(k, TList()): a new key enters the mapping after the keys
\* already there.
setdefault(kvs, k, default) ==
    IF \E i \in 1..Len(kvs) : kvs[i][1] = k THEN kvs ELSE Append(kvs, <<k, default>>)

\* ret[k].insert(0, v)
insertFirstAt(kvs, k, v) ==
    [i \in 1..Len(kvs) |->
        IF kvs[i][1] = k THEN <<k, TList(<<v>> \o kvs[i][2].items)>> ELSE kvs[i]]

\* ret[k].append(v)
appendAt(kvs, k, v) ==
    [i \in 1..Len(kvs) |->
        IF kvs[i][1] = k THEN <<k, TList(Append(kvs[i][2].items, v))>> ELSE kvs[i]]

RECURSIVE group_by_loop(_, _, _)
group_by_loop(ret, rest, to_key) ==
    IF rest = <<>> THEN ret
    ELSE LET v == Head(rest)
             k == to_key[v]
         IN  group_by_loop(appendAt(setdefault(ret, k, TList(<<>>)), k, v),
                           Tail(rest), to_key)

group_by(self, to_key) == TDict(group_by_loop(<<>>, self.items, to_key))

\* Descending as the ascending result reversed.
order_by_reversing(self, func, reverse) ==
    TList(IF reverse THEN reversed(sorted(self.items, func, FALSE))
          ELSE sorted(self.items, func, FALSE))

order_by(self, func, reverse) == TList(sorted(self.items, func, reverse))

\* The two branches exchanged.
concat_exchanged(self, values, first) ==
    IF first THEN PyAdd(self, values) ELSE PyAdd(values, self)

concat(self, values, first) ==
    IF first THEN PyAdd(values, self) ELSE PyAdd(self, values)

reduce(self, func, init_value) == PyInt(reduceLeft(func, self.items, init_value))

sum(self) == PyInt(SumSeq(self.items))

sum_by(self, func) == sum(map(self, func))

\* joint.join(map(str, self))
join_converting(self, joint) ==
    PyStr(JoinStrs(joint, [i \in 1..Len(self.items) |->
        IF self.items[i].cls = "str" THEN self.items[i].val
        ELSE ToString(self.items[i].val)]))

join(self, joint) == strjoin(joint, self.items)

\* A Python function that falls off its end returns None.
RECURSIVE find_loop(_, _)
find_loop(rest, func) ==
    IF rest = <<>> THEN None
    ELSE IF func[Head(rest)] THEN PyInt(Head(rest))
    ELSE find_loop(Tail(rest), func)

\* The last match instead of the first.
find_last(self, func) == find_loop(reversed(self.items), func)

find(self, func) == find_loop(self.items, func)

all(self, func) == PyBool(\A i \in 1..Len(self.items) : func[self.items[i]])

any(self, func) == PyBool(\E i \in 1..Len(self.items) : func[self.items[i]])

intersection(self, values) ==
    filter(self, [x \in Elems |-> In(x, values.items)])

not_intersection(self, values) ==
    reject(self, [x \in Elems |-> In(x, values.items)])

reverse(self) == TList(reversed(self.items))

----------------------------------------------------------------------------
\* TDict

DKeys == {"k1", "k2"}

\* The (key, value) functions handed to the TDict operations.
DictPreds ==
    {[kv \in DKeys \X Elems |-> kv[2] < c] : c \in 0..(MaxElem + 1)}
    \cup {[kv \in DKeys \X Elems |-> kv[1] = k] : k \in DKeys}

DictFuncs ==
    {[kv \in DKeys \X Elems |-> kv[2] * 2],
     [kv \in DKeys \X Elems |-> IF kv[1] = "k1" THEN kv[2] ELSE 0]}

\* self.values()
dict_values(self) == [i \in 1..Len(self.items) |-> self.items[i][2]]

TDict_map(self, func) == TList([i \in 1..Len(self.items) |-> func[self.items[i]]])

map_values(self, func) ==
    TDict([i \in 1..Len(self.items) |-> <<self.items[i][1], func[self.items[i][2]]>>])

TDict_filter(self, func) ==
    TList(dict_values(TDict(SelectSeq(self.items, LAMBDA kv : func[kv]))))

TDict_reject(self, func) ==
    TList(dict_values(TDict(SelectSeq(self.items, LAMBDA kv : ~func[kv]))))

TDict_sum(self) == PyInt(SumSeq(dict_values(self)))

TDict_sum_by(self, func) == sum(TDict_map(self, func))

TDict_size(self) == Len(self.items)

RECURSIVE TDict_find_loop(_, _)
TDict_find_loop(rest, func) ==
    IF rest = <<>> THEN None
    ELSE IF func[Head(rest)] THEN PyInt(Head(rest)[2])
    ELSE TDict_find_loop(Tail(rest), func)

TDict_find(self, func) == TDict_find_loop(self.items, func)

to_values(self) == TList(dict_values(self))

TDict_all(self, func) == PyBool(\A i \in 1..Len(self.items) : func[self.items[i]])

TDict_any(self, func) == PyBool(\E i \in 1..Len(self.items) : func[self.items[i]])

----------------------------------------------------------------------------
\* The program: a receiver is constructed, then methods are called on it.

VARIABLES
    self,    \* the receiver, a TList or a TDict
    elem,    \* what the receiver holds: "int", "list" (lists of ints) or "obj"
    op,      \* the method whose result the caller holds, "none" between calls
    args,    \* its arguments
    ret,     \* what it returned or raised
    self0    \* the receiver as constructed

vars == <<self, elem, op, args, ret, self0>>

MaxNest == 2     \* longest receiver of lists

\* Inputs.
IntSeqs == SeqsUpTo(Elems, MaxLen)
OtherSeqs == SeqsUpTo(Elems, MaxOther)
InnerLists == {<<>>} \cup {<<x>> : x \in Elems} \cup {<<x, x + 1>> : x \in Elems}
NestedSeqs == SeqsUpTo(InnerLists, MaxNest)
Objs == {PyStr("a"), PyStr("b"), PyInt(1)}
ObjSeqs == SeqsUpTo(Objs, MaxLen)
Joints == {"", "-"}
DictItems ==
    {kvs \in SeqsUpTo(DKeys \X Elems, Cardinality(DKeys)) :
        \A i, j \in 1..Len(kvs) : kvs[i][1] = kvs[j][1] => i = j}
Sizes == (0 - (MaxLen + 1))..(2 * MaxLen)
InitValues == {0, 100}
Others == {TList(xs) : xs \in OtherSeqs} \cup {PyList(xs) : xs \in OtherSeqs}

Init ==
    /\ \/ elem = "int" /\ self \in {TList(xs) : xs \in IntSeqs}
       \/ elem = "list" /\ self \in {TList(xs) : xs \in NestedSeqs}
       \/ elem = "obj" /\ self \in {TList(xs) : xs \in ObjSeqs}
       \/ elem = "int" /\ self \in {TDict(kvs) : kvs \in DictItems}
    /\ self0 = self
    /\ op = "none"
    /\ args = <<>>
    /\ ret = None

\* A call of method name with arguments a returned (or raised) r.
Returns(name, a, r) ==
    /\ op' = name
    /\ args' = a
    /\ ret' = r
    /\ UNCHANGED <<elem, self0>>

\* The caller holds no result: the next call can be made.
Idle == op = "none"

IsTList == self.cls = "TList"
IsTDict == self.cls = "TDict"
IsIntTList == IsTList /\ elem = "int"

Add ==
    /\ Idle
    /\ IsIntTList
    /\ \E values \in Others :
        Returns("__add__", [values |-> values], TList_add(self, values))
    /\ self' = self

Map ==
    /\ Idle
    /\ IsIntTList
    /\ \E func \in Funcs : Returns("map", [func |-> func], map(self, func))
    /\ self' = self

Emap ==
    /\ Idle
    /\ IsIntTList
    /\ \E func \in EmapFuncs : Returns("emap", [func |-> func], emap(self, func))
    /\ self' = self

Flatten ==
    /\ Idle
    /\ IsTList /\ elem \in {"int", "list"}
    /\ Returns("flatten", <<>>, flatten(self, elem))
    /\ self' = self

FlatMap ==
    /\ Idle
    /\ IsIntTList
    /\ \E func \in FlatMapFuncs :
        Returns("flat_map", [func |-> func], flat_map(self, func))
    /\ self' = self

Filter ==
    /\ Idle
    /\ IsIntTList
    /\ \E func \in Preds : Returns("filter", [func |-> func], filter(self, func))
    /\ self' = self

Reject ==
    /\ Idle
    /\ IsIntTList
    /\ \E func \in Preds : Returns("reject", [func |-> func], reject(self, func))
    /\ self' = self

HeadCall ==
    /\ Idle
    /\ IsIntTList
    /\ \E size_ \in Sizes : Returns("head", [size_ |-> size_], head(self, size_))
    /\ self' = self

HeadWhile ==
    /\ Idle
    /\ IsIntTList
    /\ \E func \in Preds :
        Returns("head_while", [func |-> func], head_while(self, func))
    /\ self' = self

TailCall ==
    /\ Idle
    /\ IsIntTList
    /\ \E size_ \in Sizes : Returns("tail", [size_ |-> size_], tail(self, size_))
    /\ self' = self

Uniq ==
    /\ Idle
    /\ IsIntTList
    /\ Returns("uniq", <<>>, uniq(self))
    /\ self' = self

UniqBy ==
    /\ Idle
    /\ IsIntTList
    /\ \E func \in Funcs : Returns("uniq_by", [func |-> func], uniq_by(self, func))
    /\ self' = self

Partial ==
    /\ Idle
    /\ IsIntTList
    /\ \E func \in Preds : Returns("partial", [func |-> func], partial(self, func))
    /\ self' = self

GroupBy ==
    /\ Idle
    /\ IsIntTList
    /\ \E to_key \in Funcs :
        Returns("group_by", [to_key |-> to_key], group_by(self, to_key))
    /\ self' = self

OrderBy ==
    /\ Idle
    /\ IsIntTList
    /\ \E func \in Funcs, reverse_ \in BOOLEAN :
        Returns("order_by", [func |-> func, reverse |-> reverse_],
                order_by(self, func, reverse_))
    /\ self' = self

Concat ==
    /\ Idle
    /\ IsIntTList
    /\ \E values \in Others, first \in BOOLEAN :
        Returns("concat", [values |-> values, first |-> first],
                concat(self, values, first))
    /\ self' = self

Reduce ==
    /\ Idle
    /\ IsIntTList
    /\ \E func \in ReduceFuncs, init_value \in InitValues :
        Returns("reduce", [func |-> func, init_value |-> init_value],
                reduce(self, func, init_value))
    /\ self' = self

Sum ==
    /\ Idle
    /\ IsIntTList
    /\ Returns("sum", <<>>, sum(self))
    /\ self' = self

SumBy ==
    /\ Idle
    /\ IsIntTList
    /\ \E func \in Funcs : Returns("sum_by", [func |-> func], sum_by(self, func))
    /\ self' = self

Size ==
    /\ Idle
    /\ IsTList
    /\ Returns("size", <<>>, PyInt(size(self)))
    /\ self' = self

Join ==
    /\ Idle
    /\ IsTList /\ elem = "obj"
    /\ \E joint \in Joints : Returns("join", [joint |-> joint], join(self, joint))
    /\ self' = self

Find ==
    /\ Idle
    /\ IsIntTList
    /\ \E func \in Preds : Returns("find", [func |-> func], find(self, func))
    /\ self' = self

All ==
    /\ Idle
    /\ IsIntTList
    /\ \E func \in Preds : Returns("all", [func |-> func], all(self, func))
    /\ self' = self

AnyCall ==
    /\ Idle
    /\ IsIntTList
    /\ \E func \in Preds : Returns("any", [func |-> func], any(self, func))
    /\ self' = self

Intersection ==
    /\ Idle
    /\ IsIntTList
    /\ \E vs \in OtherSeqs :
        Returns("intersection", [values |-> PyList(vs)], intersection(self, PyList(vs)))
    /\ self' = self

NotIntersection ==
    /\ Idle
    /\ IsIntTList
    /\ \E vs \in OtherSeqs :
        Returns("not_intersection", [values |-> PyList(vs)],
                not_intersection(self, PyList(vs)))
    /\ self' = self

\* TList.reverse overrides list.reverse, which reverses in place.
ReverseInPlace ==
    /\ Idle
    /\ IsTList
    /\ Returns("reverse", <<>>, None)
    /\ self' = TList(reversed(self.items))

Reverse ==
    /\ Idle
    /\ IsTList
    /\ Returns("reverse", <<>>, reverse(self))
    /\ self' = self

DictMap ==
    /\ Idle
    /\ IsTDict
    /\ \E func \in DictFuncs : Returns("TDict.map", [func |-> func], TDict_map(self, func))
    /\ self' = self

MapValues ==
    /\ Idle
    /\ IsTDict
    /\ \E func \in Funcs :
        Returns("TDict.map_values", [func |-> func], map_values(self, func))
    /\ self' = self

DictFilter ==
    /\ Idle
    /\ IsTDict
    /\ \E func \in DictPreds :
        Returns("TDict.filter", [func |-> func], TDict_filter(self, func))
    /\ self' = self

DictReject ==
    /\ Idle
    /\ IsTDict
    /\ \E func \in DictPreds :
        Returns("TDict.reject", [func |-> func], TDict_reject(self, func))
    /\ self' = self

DictSum ==
    /\ Idle
    /\ IsTDict
    /\ Returns("TDict.sum", <<>>, TDict_sum(self))
    /\ self' = self

DictSumBy ==
    /\ Idle
    /\ IsTDict
    /\ \E func \in DictFuncs :
        Returns("TDict.sum_by", [func |-> func], TDict_sum_by(self, func))
    /\ self' = self

DictSize ==
    /\ Idle
    /\ IsTDict
    /\ Returns("TDict.size", <<>>, PyInt(TDict_size(self)))
    /\ self' = self

DictFind ==
    /\ Idle
    /\ IsTDict
    /\ \E func \in DictPreds :
        Returns("TDict.find", [func |-> func], TDict_find(self, func))
    /\ self' = self

ToValues ==
    /\ Idle
    /\ IsTDict
    /\ Returns("TDict.to_values", <<>>, to_values(self))
    /\ self' = self

DictAll ==
    /\ Idle
    /\ IsTDict
    /\ \E func \in DictPreds : Returns("TDict.all", [func |-> func], TDict_all(self, func))
    /\ self' = self

DictAny ==
    /\ Idle
    /\ IsTDict
    /\ \E func \in DictPreds : Returns("TDict.any", [func |-> func], TDict_any(self, func))
    /\ self' = self

\* The caller is done with the result and is ready for the next call.
Discard ==
    /\ op # "none"
    /\ op' = "none"
    /\ args' = <<>>
    /\ ret' = None
    /\ UNCHANGED <<self, elem, self0>>

Next ==
    \/ Add \/ Map \/ Emap \/ Flatten \/ FlatMap \/ Filter \/ Reject
    \/ HeadCall \/ HeadWhile \/ TailCall \/ Uniq \/ UniqBy \/ Partial
    \/ GroupBy \/ OrderBy \/ Concat \/ Reduce \/ Sum \/ SumBy \/ Size
    \/ Join \/ Find \/ All \/ AnyCall \/ Intersection \/ NotIntersection
    \/ Reverse
    \/ DictMap \/ MapValues \/ DictFilter \/ DictReject \/ DictSum
    \/ DictSumBy \/ DictSize \/ DictFind \/ ToValues \/ DictAll \/ DictAny
    \/ Discard

Spec == Init /\ [][Next]_vars

----------------------------------------------------------------------------
\* Properties.

\* The elements of xs at the indices that satisfy Keep, in order.
AtIndices(xs, Keep(_)) ==
    LET idx == SelectSeq([i \in 1..Len(xs) |-> i], Keep)
    IN  [n \in 1..Len(idx) |-> xs[idx[n]]]

\* The last n elements of xs, all of xs when it has fewer.
LastN(xs, n) ==
    IF n >= Len(xs) THEN xs ELSE SubSeq(xs, Len(xs) - n + 1, Len(xs))

\* C1: concat of two TLists returns a TList of the receiver's elements
\* followed by the argument's, or the argument's followed by the receiver's
\* with first (prepend) set, and the receiver holds what it held before.
C1_ConcatOrder ==
    (op = "concat" /\ args.values.cls = "TList") =>
        /\ ret = TList(IF args.first
                       THEN args.values.items \o self0.items
                       ELSE self0.items \o args.values.items)
        /\ self = self0

C1_Witness ==
    /\ op = "concat"
    /\ args.values.cls = "TList"
    /\ args.first
    /\ Len(self.items) = 2
    /\ Len(args.values.items) = 2
    /\ ret = TList(args.values.items \o self.items)
    /\ ret.items # self.items \o args.values.items

\* C2: tail(n) with n >= 0 returns the last n elements: none for n = 0, the
\* final n for n <= size, the whole sequence for n > size.
C2_TailLastN ==
    (op = "tail" /\ args.size_ >= 0) => ret = TList(LastN(self0.items, args.size_))

\* C3: head(n) and tail(n) with a negative n raise an error and return no
\* sequence.
C3_NegativeSizeRejected ==
    (op \in {"head", "tail"} /\ args.size_ < 0) => IsError(ret)

C5_ReceiverUnchanged == self = self0

C5_Witness ==
    /\ op = "reverse"
    /\ ret.cls = "TList"
    /\ ret.items # self.items
    /\ self = self0

\* C6: uniq_by(f) keeps an element exactly when no earlier element of the
\* receiver has an equal f-value, in the original order, so no two elements
\* of the result have equal f-values and the result is no longer than the
\* receiver; uniq() is the same with f the identity.
C6_UniqFirstOccurrence ==
    LET s == self0.items
        r == ret.items
    IN  /\ op = "uniq_by" =>
            LET f == args.func
            IN  /\ ret = TList(AtIndices(s, LAMBDA i :
                                 \A j \in 1..(i - 1) : f[s[j]] # f[s[i]]))
                /\ \A i, j \in 1..Len(r) : f[r[i]] = f[r[j]] => i = j
                /\ Len(r) <= Len(s)
        /\ op = "uniq" =>
            /\ ret = TList(AtIndices(s, LAMBDA i : \A j \in 1..(i - 1) : s[j] # s[i]))
            /\ \A i, j \in 1..Len(r) : r[i] = r[j] => i = j
            /\ Len(r) <= Len(s)

C6_Witness ==
    /\ op = "uniq_by"
    /\ Len(self.items) = 3
    /\ self.items[1] # self.items[3]
    /\ args.func[self.items[1]] = args.func[self.items[3]]
    /\ args.func[self.items[1]] # args.func[self.items[2]]
    /\ ret = TList(<<self.items[1], self.items[2]>>)

\* C7: group_by(k) returns a mapping whose keys are exactly the keys of the
\* receiver's elements, entered in the order in which they are first seen;
\* the bucket of a key holds the elements with that key in their original
\* order, and the bucket sizes add up to the size of the receiver.
C7_GroupBy ==
    op = "group_by" =>
        LET k == args.to_key
            s == self0.items
            e == ret.items
            First(c) == CHOOSE i \in 1..Len(s) :
                            /\ k[s[i]] = c
                            /\ \A j \in 1..(i - 1) : k[s[j]] # c
        IN  /\ ret.cls = "TDict"
            /\ {e[i][1] : i \in 1..Len(e)} = {k[s[i]] : i \in 1..Len(s)}
            /\ \A i, j \in 1..Len(e) : e[i][1] = e[j][1] => i = j
            /\ \A i, j \in 1..Len(e) : i < j => First(e[i][1]) < First(e[j][1])
            /\ \A i \in 1..Len(e) :
                 e[i][2] = TList(SelectSeq(s, LAMBDA x : k[x] = e[i][1]))
            /\ SumSeq([i \in 1..Len(e) |-> Len(e[i][2].items)]) = Len(s)

C7_Witness ==
    /\ op = "group_by"
    /\ Len(self.items) = 3
    /\ Len(ret.items) = 2
    /\ ret.items[1][1] > ret.items[2][1]
    /\ ret.items[1][2] = TList(<<self.items[1], self.items[3]>>)
    /\ self.items[1] # self.items[3]
    /\ ret.items[2][2] = TList(<<self.items[2]>>)

\* C8: find(p) returns the element at the smallest index satisfying p and
\* None, never an error, when there is none (the empty receiver included);
\* TDict.find returns the value of the first entry in iteration order that
\* satisfies p, or None.
C8_FindFirst ==
    LET s == self0.items
        p == args.func
        Hits == {i \in 1..Len(s) : p[s[i]]}
        first == CHOOSE i \in Hits : \A j \in Hits : i <= j
    IN  /\ op = "find" =>
            ret = IF Hits = {} THEN None ELSE PyInt(s[first])
        /\ op = "TDict.find" =>
            ret = IF Hits = {} THEN None ELSE PyInt(s[first][2])

C8_Witness ==
    /\ op = "find"
    /\ Len(self.items) = 3
    /\ ~args.func[self.items[1]]
    /\ args.func[self.items[2]]
    /\ args.func[self.items[3]]
    /\ self.items[2] # self.items[3]
    /\ ret = PyInt(self.items[2])

\* str(o)
Str(o) == IF o.cls = "str" THEN o.val ELSE ToString(o.val)

\* The strings joined by joint, built from the right end.
RECURSIVE Joined(_, _)
Joined(joint, strs) ==
    IF strs = <<>> THEN ""
    ELSE IF Len(strs) = 1 THEN strs[1]
    ELSE Joined(joint, SubSeq(strs, 1, Len(strs) - 1)) \o joint \o strs[Len(strs)]

C10_AddKeepsOrder ==
    /\ op = "__add__" => ret = TList(self0.items \o args.values.items)
    /\ op = "concat" =>
         ret = concat(self0, TList(args.values.items), args.first)

====
